---- MODULE Spec2Model ----
(***************************************************************************)
(* Model of the transcript store and of the snippet search of the Flask    *)
(* application in src/app.py.backup, and of the scripts of its dashboard   *)
(* and upload pages in src/templates/key_moments.html and                  *)
(* src/unnamed/part_000.                                                   *)
(*                                                                         *)
(* Strings that the program inspects character by character (the full     *)
(* text of a transcript, the search query) are sequences of one-character  *)
(* strings and offsets are 0-based as in Python; strings the program only  *)
(* stores and copies (ids, titles, file names, dates) are TLA+ strings.    *)
(***************************************************************************)
EXTENDS Integers, Sequences, FiniteSets, TLC

VARIABLES
    transcript_folder,  \* app.config['TRANSCRIPT_FOLDER']: entries in os.listdir order
    upload_folder,      \* app.config['UPLOAD_FOLDER']: the set of file names in it
    model,              \* the module-level Whisper model handle (None until loaded)
    issued,             \* the uuid4 values str(uuid.uuid4()) has returned so far
    puts,               \* per id, the transcript_data a successful ingestion dumped
    request,            \* the request the last handler served
    response,           \* the response the last handler returned
    opened,             \* the files of TRANSCRIPT_FOLDER the last handler opened, in order
    failed,             \* the calls that raised while the last handler ran, in order
    log,                \* the ids that ingestions, and that deletes, have reported as successes
    threads,            \* per request thread in flight, the line it is at and its locals
    loads,              \* the number of calls of whisper.load_model so far
    browser             \* the dashboard page in the browser: its elements and script variables

vars == <<transcript_folder, upload_folder, model, issued, puts, request, response, opened,
          failed, log, threads, loads, browser>>

----------------------------------------------------------------------------
(* Program constants of search_transcripts.                                *)

MinQueryLen == 2
MaxSnippets == 3
SnippetContext == 50
MaxResults == 10
PreviewLen == 200

\* the shortest term the dashboard sends to /search (key_moments.html line 1254)
MinTermLen == 2

\* the number of selected transcripts from which the compare actions are shown
\* (src/unnamed/part_000 line 88)
MinCompared == 2

(* Bounds of the model.                                                    *)

MaxTextLen == 6
MaxPaddedLen == 2
MaxQueryLen == 3
PadLen == 60
MaxRankFiles == 11
MaxIds == 2
MaxBatch == 2
MaxInFlight == 2
MaxInputs == 3
MaxRows == 4

----------------------------------------------------------------------------
(* Python values.                                                          *)

None == "None"
NoResponse == [status |-> 0, body |-> None]
Ellipsis3 == <<".", ".", ".">>

\* s[a:b] for 0 <= a, 0 <= b (Python clamps both ends to len(s))
Slice(s, a, b) == SubSeq(s, a + 1, IF b > Len(s) THEN Len(s) ELSE b)

\* str.lower(), character by character
LowerChar(c) == IF c = "A" THEN "a" ELSE IF c = "B" THEN "b" ELSE c
lower(s) == SubSeq([i \in 1..Len(s) |-> LowerChar(s[i])], 1, Len(s))

\* s.startswith(sub, i)
startswith(s, sub, i) ==
    /\ i + Len(sub) <= Len(s)
    /\ \A j \in 1..Len(sub) : s[i + j] = sub[j]

\* s.find(sub, start): the lowest offset >= start where sub occurs, or -1
RECURSIVE find(_, _, _)
find(s, sub, start) ==
    IF start + Len(sub) > Len(s) THEN -1
    ELSE IF startswith(s, sub, start) THEN start
    ELSE find(s, sub, start + 1)

\* sub in s
contains(s, sub) == \E i \in 0..(Len(s) - Len(sub)) : startswith(s, sub, i)

\* s.count(sub): the number of non-overlapping occurrences, scanning from `from`
RECURSIVE count_from(_, _, _)
count_from(s, sub, from) ==
    LET pos == find(s, sub, from)
    IN  IF pos = -1 THEN 0 ELSE 1 + count_from(s, sub, pos + Len(sub))

count(s, sub) == count_from(s, sub, 0)

Max2(a, b) == IF a > b THEN a ELSE b
Min2(a, b) == IF a < b THEN a ELSE b

----------------------------------------------------------------------------
(* Files of TRANSCRIPT_FOLDER.  A directory entry is [name, content]; a    *)
(* name is [stem, ext].  The content of a .json file is the document       *)
(* json.dump wrote: its members in insertion order, and whether the        *)
(* document was written to its closing brace.                              *)

JsonName(transcript_id) == [stem |-> transcript_id, ext |-> ".json"]
TextName(transcript_id) == [stem |-> transcript_id, ext |-> ".txt"]

\* the order in which transcribe inserts the keys of transcript_data
TranscriptKeys ==
    <<"id", "title", "topic", "original_filename", "date", "filepath",
      "transcript", "segments">>

\* json.dump(obj, f) for a dict with the keys of TranscriptKeys
json_dump_strings_only(obj) ==
    [members |-> [i \in 1..(Len(TranscriptKeys) - 1) |->
                      <<TranscriptKeys[i], obj[TranscriptKeys[i]]>>],
     closed |-> TRUE]

json_dump(obj) ==
    [members |-> [i \in 1..Len(TranscriptKeys) |->
                      <<TranscriptKeys[i], obj[TranscriptKeys[i]]>>],
     closed |-> TRUE]

\* what is on disk when json.dump raised after it wrote the id: a document cut short
truncated(doc) == [members |-> SubSeq(doc.members, 1, 1), closed |-> FALSE]

\* json.load(f): the dict, or JSONDecodeError for a document cut short
json_load(doc) ==
    IF ~doc.closed
    THEN [raised |-> "JSONDecodeError", value |-> None]
    ELSE LET keys == {doc.members[i][1] : i \in DOMAIN doc.members}
             last(k) == CHOOSE i \in DOMAIN doc.members :
                            /\ doc.members[i][1] = k
                            /\ \A j \in DOMAIN doc.members :
                                   doc.members[j][1] = k => j <= i
         IN  [raised |-> None, value |-> [k \in keys |-> doc.members[last(k)][2]]]

\* os.path.exists(path) for a path in TRANSCRIPT_FOLDER
exists(folder, name) == \E i \in DOMAIN folder : folder[i].name = name

\* the content open(path, 'r') reads
read(folder, name) == folder[CHOOSE i \in DOMAIN folder : folder[i].name = name].content

\* os.remove(path)
remove(folder, name) == SelectSeq(folder, LAMBDA e : e.name # name)

\* open(path, 'w') and the writes that follow: an existing file keeps its place in
\* the directory, a new one appears in the listing `at` entries before the end
\* (at the front when there are fewer)
write(folder, name, content, at) ==
    IF exists(folder, name)
    THEN [i \in DOMAIN folder |->
              IF folder[i].name = name
              THEN [name |-> name, content |-> content] ELSE folder[i]]
    ELSE LET before == Max2(0, Len(folder) - at)
         IN  SubSeq(folder, 1, before) \o <<[name |-> name, content |-> content]>>
                 \o SubSeq(folder, before + 1, Len(folder))

----------------------------------------------------------------------------
(* search_transcripts, src/app.py.backup lines 81-132.                     *)

\* line 106
snippet_start(pos) == Max2(0, pos - SnippetContext)

\* line 107
snippet_end(transcript_text, query, pos) ==
    Min2(Len(transcript_text), pos + Len(query) + SnippetContext)

\* line 111
highlight_start_absolute(pos, start) == pos
highlight_start(pos, start) == Max2(0, pos - start)

\* line 115
highlight_len_short(query) == Len(query) - 1
highlight_len(query) == Len(query)

\* line 118
next_cursor_overlapping(pos, query) == pos + 1
next_cursor(pos, query) == pos + Len(query)

\* lines 100-118: the loop `for _ in range(3)`, with `n` iterations left
RECURSIVE snippet_loop(_, _, _, _, _)
snippet_loop(transcript_text, query, last_pos, n, matches) ==
    IF n = 0 THEN matches
    ELSE LET pos == find(transcript_text, query, last_pos)
         IN  IF pos = -1 THEN matches
             ELSE LET start == snippet_start(pos)
                      end == snippet_end(transcript_text, query, pos)
                      snippet == Ellipsis3 \o Slice(transcript_text, start, end) \o Ellipsis3
                  IN  snippet_loop(transcript_text, query, next_cursor(pos, query), n - 1,
                          Append(matches, [snippet |-> snippet,
                                           highlight_pos |-> highlight_start(pos, start),
                                           highlight_len |-> highlight_len(query)]))

\* line 92
transcript_as_stored(data) == data["transcript"]
lowered_transcript(data) == lower(data["transcript"])

\* line 126
match_count_of_snippets(transcript_text, query) == Min2(MaxSnippets, count(transcript_text, query))
match_count(transcript_text, query) == count(transcript_text, query)

\* lines 92-127: the body of the loop over the files, for one loaded record
search_record(data, query, results) ==
    LET transcript_text == lowered_transcript(data)
        matches == IF contains(transcript_text, query)
                   THEN snippet_loop(transcript_text, query, 0, MaxSnippets, <<>>)
                   ELSE <<>>
    IN  IF matches # <<>>
        THEN Append(results, [id |-> data["id"],
                              title |-> data["title"],
                              date |-> data["date"],
                              matches |-> matches,
                              match_count |-> match_count(transcript_text, query)])
        ELSE results

\* lines 88-127: the loop over os.listdir(TRANSCRIPT_FOLDER) from entry i on; an
\* exception raised in the loop body ends the handler
RECURSIVE scan(_, _, _, _, _)
scan(folder, query, i, results, seen) ==
    IF i > Len(folder) THEN [raised |-> None, results |-> results, opened |-> seen]
    ELSE IF folder[i].name.ext # ".json" THEN scan(folder, query, i + 1, results, seen)
    ELSE LET loaded == json_load(folder[i].content)
             now == Append(seen, folder[i].name)
         IN  IF loaded.raised # None
             THEN [raised |-> loaded.raised, results |-> results, opened |-> now]
             ELSE IF "transcript" \notin DOMAIN loaded.value
             THEN [raised |-> "KeyError", results |-> results, opened |-> now]
             ELSE scan(folder, query, i + 1,
                       search_record(loaded.value, query, results), now)

\* line 130: results.sort(key=lambda x: x['match_count'], reverse=True).
\* list.sort is stable, also with reverse=True: x goes behind every element
\* whose key is not smaller
sort_insert_unstable(sorted, x) ==
    LET k == Cardinality({j \in DOMAIN sorted : sorted[j].match_count > x.match_count})
    IN  SubSeq(sorted, 1, k) \o <<x>> \o SubSeq(sorted, k + 1, Len(sorted))

sort_insert(sorted, x) ==
    LET k == Cardinality({j \in DOMAIN sorted : sorted[j].match_count >= x.match_count})
    IN  SubSeq(sorted, 1, k) \o <<x>> \o SubSeq(sorted, k + 1, Len(sorted))

RECURSIVE sort_by_match_count(_, _, _)
sort_by_match_count(results, i, sorted) ==
    IF i > Len(results) THEN sorted
    ELSE sort_by_match_count(results, i + 1, sort_insert(sorted, results[i]))

\* request.json of a /search request: `has` is the set of keys the body carries
SearchBodies(Queries) ==
    {[has |-> {"query"}, query |-> q] : q \in Queries} \cup {[has |-> {}, query |-> <<>>]}

\* request.json.get('query', '')
json_get_query(json) == IF "query" \in json.has THEN json.query ELSE <<>>

\* line 84: `not query or len(query) < 2`
too_short_unless_empty(query) == query = <<>>
too_short(query) == query = <<>> \/ Len(query) < MinQueryLen

\* the handler: what it returns and which files it opened
search_transcripts(folder, json) ==
    LET query == lower(json_get_query(json))
    IN  IF too_short(query)
        THEN [status |-> 200, body |-> <<>>, opened |-> <<>>]
        ELSE LET scanned == scan(folder, query, 1, <<>>, <<>>)
             IN  IF scanned.raised # None
                 THEN [status |-> 500, body |-> scanned.raised, opened |-> scanned.opened]
                 ELSE [status |-> 200,
                       body |-> Slice(sort_by_match_count(scanned.results, 1, <<>>),
                                      0, MaxResults),
                       opened |-> scanned.opened]

Search(Queries) ==
    \E json \in SearchBodies(Queries) :
        LET done == search_transcripts(transcript_folder, json)
        IN  /\ request' = [op |-> "search", json |-> json]
            /\ response' = [status |-> done.status, body |-> done.body]
            /\ opened' = done.opened
            /\ failed' = IF done.status # 500 THEN <<>>
                         ELSE IF done.body = "KeyError" THEN <<"data['transcript']">>
                         ELSE <<"json.load">>
            /\ UNCHANGED <<transcript_folder, upload_folder, model, issued, puts, log, threads, loads, browser>>

----------------------------------------------------------------------------
(* transcribe, src/app.py.backup lines 134-319: the branch for uploaded    *)
(* files (lines 261-315).                                                  *)

\* get_model(), lines 27-34: the handle after the call
get_model(handle) == IF handle = None THEN "base" ELSE handle

\* the calls of whisper.load_model so far, n of them before a handler that
\* found the handle `before` and left the handle `after`
load_count(before, after, n) == IF before = None /\ after # None THEN n + 1 ELSE n

\* no dashboard page is open
NoPage == [page |-> "none"]

\* model.transcribe(filepath): Whisper's result for a medium whose speech is `text`
whisper_result(text) ==
    [text |-> text,
     segments |-> IF text = <<>> THEN <<>>
                  ELSE <<[start |-> 0, end |-> Len(text), text |-> text]>>]

\* line 270: werkzeug's secure_filename, on the names the model uploads
secure_filename(filename) ==
    CASE filename = "my clip.mp4" -> "my_clip.mp4"
      [] filename = "../talk.wav" -> "talk.wav"
      [] OTHER -> filename

\* line 272: os.path.splitext(original_filename)[1]
splitext(original_filename) ==
    CASE original_filename = "my_clip.mp4" -> ".mp4"
      [] original_filename = "talk.wav" -> ".wav"
      [] OTHER -> ""

\* lines 273-274: os.path.join(UPLOAD_FOLDER, f"{file_id}{extension}")
upload_path(file_id, extension) ==
    [folder |-> "static/uploads", stem |-> file_id, ext |-> extension]

\* request.form.get(key, default)
form_get(form, key, default) == IF key \in form.has THEN form[key] ELSE default

\* a form that carries no title
Untitled == [has |-> {}, title |-> ""]

\* the request threads of the server (app.run, line 355) that the model follows
\* line by line, and the locals of one: the line it is at, request.files and
\* request.form, the index of `file` in `files`, file_id (transcript_id in a
\* download), the clock read at line 294, result, results, the calls that
\* raised, and text_content in a download.  The requests of the other threads
\* are served in one step each
Threads == {"r1", "r2"}
Idle ==
    [pc |-> "idle", files |-> <<>>, form |-> Untitled, i |-> 1, file_id |-> 0,
     date |-> "", result |-> whisper_result(<<>>), results |-> <<>>, failed |-> <<>>,
     text |-> <<>>]
NoThreads == [t \in Threads |-> Idle]

\* lines 289-298
transcript_data(file_id, title, topic, original_filename, date, filepath, result) ==
    [id |-> file_id,
     title |-> title,
     topic |-> topic,
     original_filename |-> original_filename,
     date |-> date,
     filepath |-> filepath,
     transcript |-> result.text,
     segments |-> result.segments]

\* puts, with `data` recorded as the record dumped for its id
recorded(done, data) ==
    [id \in DOMAIN done \cup {data.id} |-> IF id = data.id THEN data ELSE done[id]]

\* puts, without the record of `transcript_id`
forgotten(done, transcript_id) == [id \in DOMAIN done \ {transcript_id} |-> done[id]]

\* lines 304-308
success_outcome(file_id, title) == [id |-> file_id, title |-> title, success |-> TRUE]

\* lines 311-315
failure_outcome(original_filename, error) ==
    [filename |-> original_filename, success |-> FALSE, error |-> error]

\* line 271: str(uuid.uuid4()).  The ids are opaque and no two draws give the
\* same one: id k stands for the k-th value drawn in the life of the store
uuid4_repeating(drawn) == 1
uuid4(drawn) == Cardinality(drawn) + 1

\* lines 265-315: the body of `for file in files` for one file.  `st` is the
\* state of the handler: the two folders, the model handle, the ids drawn, the
\* results so far and whether an exception has left the handler.  `env` is what
\* the environment decides for this file: the clock, the place of a new file in
\* the listing and which call fails, if any.
upload_one(st, file, form, env) ==
    IF st.raised # None \/ file.filename = "" THEN st
    ELSE LET original_filename == secure_filename(file.filename)
             file_id == uuid4(st.issued)
             filepath == upload_path(file_id, splitext(original_filename))
             title == form_get(form, "title", original_filename)
             topic == form_get(form, "topic", "")
             drawn == [st EXCEPT !.issued = @ \cup {file_id}]
         IN  IF env.fails = "save"
             THEN [drawn EXCEPT !.raised = "OSError", !.failed = Append(@, "file.save")]
             ELSE LET saved == [drawn EXCEPT !.uploads = @ \cup {filepath},
                                             !.model = get_model(@)]
                      data == transcript_data(file_id, title, topic, original_filename,
                                  env.date, filepath, whisper_result(file.speech))
                  IN  IF env.fails = "transcribe"
                      THEN [saved EXCEPT
                                !.failed = Append(@, "model.transcribe"),
                                !.results =
                                    Append(@, failure_outcome(original_filename, "RuntimeError"))]
                      ELSE IF env.fails = "dump"
                      THEN [saved EXCEPT
                                !.folder = write(@, JsonName(file_id),
                                                 truncated(json_dump(data)), env.at),
                                !.failed = Append(@, "json.dump"),
                                !.results =
                                    Append(@, failure_outcome(original_filename, "OSError"))]
                      ELSE [saved EXCEPT
                                !.folder = write(@, JsonName(file_id), json_dump(data), env.at),
                                !.puts = recorded(@, data),
                                !.results = Append(@, success_outcome(file_id, title))]

\* lines 264-315: `for file in files`, from file i on; envs[j] is what the
\* environment decides for the j-th file that has a name
RECURSIVE upload_loop(_, _, _, _, _, _)
upload_loop(st, files, form, envs, i, j) ==
    IF i > Len(files) THEN st
    ELSE IF files[i].filename = "" THEN upload_loop(st, files, form, envs, i + 1, j)
    ELSE upload_loop(upload_one(st, files[i], form, envs[j]), files, form, envs, i + 1, j + 1)

\* what the environment may decide for n files: the place in the listing counts
\* only for a request that reaches open(transcript_path, 'w')
Environments(n, Dates, Failures, Places) ==
    [1..n -> {env \in [date : Dates, at : Places, fails : Failures] :
                 env.fails \in {"save", "transcribe"} => env.at = 0}]

\* the files of a request for which line 271 draws an id
named(files) == SelectSeq(files, LAMBDA file : file.filename # "")

\* the ids of the outcomes that report a success
succeeded(results) == {results[k].id : k \in {j \in DOMAIN results : results[j].success}}

\* the handler for a request that carries `files` under the key 'file'
transcribe(Batches, Forms, Dates, Failures, Places) ==
    \E files \in Batches, form \in Forms :
        /\ Cardinality(issued) + Len(named(files)) <= MaxIds
        /\ \E envs \in Environments(Len(named(files)), Dates, Failures, Places) :
               LET \* lines 137-143: the upload folder is emptied first
                   st0 == [folder |-> transcript_folder, uploads |-> {}, model |-> model,
                           issued |-> issued, puts |-> puts, results |-> <<>>,
                           raised |-> None, failed |-> <<>>]
                   st == upload_loop(st0, files, form, envs, 1, 1)
               IN  /\ transcript_folder' = st.folder
                   /\ upload_folder' = st.uploads
                   /\ model' = st.model
                   /\ loads' = load_count(model, st.model, loads)
                   /\ issued' = st.issued
                   /\ puts' = st.puts
                   /\ request' = [op |-> "transcribe", files |-> files, form |-> form]
                   /\ response' = IF st.raised # None
                                  THEN [status |-> 500, body |-> st.raised]
                                  ELSE [status |-> 200, body |-> st.results]
                   /\ opened' = <<>>
                   /\ failed' = st.failed
                   /\ log' = [log EXCEPT !.put = @ \cup succeeded(st.results)]
                   /\ UNCHANGED <<threads, browser>>

----------------------------------------------------------------------------
(* transcribe, lines 134-319: the branches for a YouTube URL (148-202),    *)
(* for a local path (205-258) and for a request with neither (316-317).    *)

\* the state of the handler `st` once `call` has raised `error` inside the try
\* of a branch: the except clause appends a failure outcome under `filename`
caught(st, call, filename, error) ==
    [st EXCEPT !.failed = Append(@, call),
               !.results = Append(@, failure_outcome(filename, error))]

\* open(transcript_path, 'w') and json.dump(transcript_data, f) went through
dumped(st, data, doc, at) ==
    [st EXCEPT !.folder = write(@, JsonName(data["id"]), doc, at),
               !.puts = recorded(@, data),
               !.results = Append(@, success_outcome(data["id"], data["title"]))]

\* what the handler leaves behind when it returns from state `st`
Served(st, form, files) ==
    /\ transcript_folder' = st.folder
    /\ upload_folder' = st.uploads
    /\ model' = st.model
    /\ loads' = load_count(model, st.model, loads)
    /\ issued' = st.issued
    /\ puts' = st.puts
    /\ request' = [op |-> "transcribe", files |-> files, form |-> form]
    /\ response' = [status |-> 200, body |-> st.results]
    /\ opened' = <<>>
    /\ failed' = st.failed
    /\ log' = [log EXCEPT !.put = @ \cup succeeded(st.results)]
    /\ UNCHANGED <<threads, browser>>

\* lines 137-145: the upload folder is emptied and results is []
Entered ==
    [folder |-> transcript_folder, uploads |-> {}, model |-> model, issued |-> issued,
     puts |-> puts, results |-> <<>>, raised |-> None, failed |-> <<>>]

\* os.path.basename(file_path), on the paths the model submits
basename(file_path) ==
    CASE file_path = "/media/talk.wav" -> "talk.wav"
      [] OTHER -> file_path

\* line 222: os.path.join(UPLOAD_FOLDER, filename)
dest_path(filename) == [folder |-> "static/uploads", stem |-> filename, ext |-> ""]

\* lines 208-258.  `env` tells whether the file is there, what is said in it,
\* the clock, the place of a new file in the listing and which call fails
file_path_branch(st, form, env) ==
    LET file_path == form.file_path
        title == form_get(form, "title", basename(file_path))
        topic == form_get(form, "topic", "")
        filename == basename(file_path)
    IN  IF ~env.exists
        THEN caught(st, "raise FileNotFoundError", filename, "FileNotFoundError")
        ELSE LET file_id == uuid4(st.issued)
                 drawn == [st EXCEPT !.issued = @ \cup {file_id}]
                 copied == [drawn EXCEPT !.uploads = @ \cup {dest_path(filename)},
                                         !.model = get_model(@)]
                 data == transcript_data(file_id, title, topic, filename, env.date,
                                         file_path, whisper_result(env.speech))
             IN  IF env.fails = "copy"
                 THEN caught(drawn, "shutil.copy2", filename, "OSError")
                 ELSE IF env.fails = "transcribe"
                 THEN caught(copied, "model.transcribe", filename, "RuntimeError")
                 ELSE IF env.fails = "dump"
                 THEN caught([copied EXCEPT
                                  !.folder = write(@, JsonName(file_id),
                                                   truncated(json_dump(data)), env.at)],
                             "json.dump", filename, "OSError")
                 ELSE dumped(copied, data, json_dump(data), env.at)

transcribe_file_path(Forms, Envs) ==
    \E form \in Forms, env \in Envs :
        /\ Cardinality(issued) < MaxIds
        /\ Served(file_path_branch(Entered, form, env), form, <<>>)

\* youtube_downloader.download_youtube_video(url, output_path) for the video
\* behind the url: the media is stored in the upload folder under a new unique id
download_youtube_video(youtube_url, drawn, video) ==
    [file_id |-> uuid4(drawn),
     file_path |-> upload_path(uuid4(drawn), ".mp4"),
     title |-> video.title,
     video_id |-> video.video_id,
     channel |-> video.channel]

\* line 177: f"{video_info['title']}.mp4", on the titles of the videos of the model
video_filename(title) ==
    CASE title = "Lecture" -> "Lecture.mp4"
      [] OTHER -> title

\* lines 173-185: the keys of the upload record and three more
YoutubeKeys == TranscriptKeys \o <<"youtube_id", "youtube_url", "youtube_channel">>

youtube_data(data, video_info, youtube_url) ==
    [key \in {YoutubeKeys[i] : i \in DOMAIN YoutubeKeys} |->
        CASE key = "youtube_id" -> video_info.video_id
          [] key = "youtube_url" -> youtube_url
          [] key = "youtube_channel" -> video_info.channel
          [] OTHER -> data[key]]

\* line 189: json.dump(obj, f) for a dict with the keys of YoutubeKeys
json_dump_video(obj) ==
    [members |-> [i \in 1..Len(YoutubeKeys) |-> <<YoutubeKeys[i], obj[YoutubeKeys[i]]>>],
     closed |-> TRUE]

\* line 165: `if not title`
not_title(title) == title = ""

\* lines 151-202.  `env` tells the video behind the url, what is said in it,
\* the clock, the place of a new file in the listing and which call fails
youtube_branch(st, form, env) ==
    LET youtube_url == form.youtube_url
        given == form_get(form, "title", "")
        topic == form_get(form, "topic", "")
        video_info == download_youtube_video(youtube_url, st.issued, env.video)
        file_id == video_info.file_id
        filepath == video_info.file_path
        title == IF not_title(given) THEN video_info.title ELSE given
        downloaded == [st EXCEPT !.issued = @ \cup {file_id},
                                 !.uploads = @ \cup {filepath},
                                 !.model = get_model(@)]
        data == youtube_data(
                    transcript_data(file_id, title, topic, video_filename(video_info.title),
                                    env.date, filepath, whisper_result(env.speech)),
                    video_info, youtube_url)
    IN  IF env.fails = "download"
        THEN caught(st, "download_youtube_video", "YouTube Video", "DownloadError")
        ELSE IF env.fails = "transcribe"
        THEN caught(downloaded, "model.transcribe", "YouTube Video", "RuntimeError")
        ELSE IF env.fails = "dump"
        THEN caught([downloaded EXCEPT
                         !.folder = write(@, JsonName(file_id),
                                          truncated(json_dump_video(data)), env.at)],
                    "json.dump", "YouTube Video", "OSError")
        ELSE dumped(downloaded, data, json_dump_video(data), env.at)

transcribe_youtube(Forms, Envs) ==
    \E form \in Forms, env \in Envs :
        /\ Cardinality(issued) < MaxIds
        /\ Served(youtube_branch(Entered, form, env), form, <<>>)

\* lines 316-317: neither 'youtube_url' nor 'file_path' in request.form and no
\* 'file' in request.files
transcribe_nothing(Forms) ==
    \E form \in Forms :
        /\ upload_folder' = {}
        /\ request' = [op |-> "transcribe", files |-> <<>>, form |-> form]
        /\ response' = [status |-> 400, body |-> "No file or YouTube URL provided"]
        /\ opened' = <<>>
        /\ failed' = <<>>
        /\ UNCHANGED <<transcript_folder, model, issued, puts, log, threads, loads, browser>>

----------------------------------------------------------------------------
----------------------------------------------------------------------------
(* The upload page, src/templates/key_moments.html lines 826-853, and the  *)
(* request it sends to transcribe.                                         *)

\* lines 842-846: the template literals `file_${index}`, `title_${index}` and
\* `topic_${index}`, on the indexes the model uses
index_key(name, index) ==
    CASE name = "file" /\ index = 0 -> "file_0"
      [] name = "file" /\ index = 1 -> "file_1"
      [] name = "file" /\ index = 2 -> "file_2"
      [] name = "title" /\ index = 0 -> "title_0"
      [] name = "title" /\ index = 1 -> "title_1"
      [] name = "title" /\ index = 2 -> "title_2"
      [] name = "topic" /\ index = 0 -> "topic_0"
      [] name = "topic" /\ index = 1 -> "topic_1"
      [] name = "topic" /\ index = 2 -> "topic_2"
      [] OTHER -> name

\* lines 827-853: the FormData for the file items of the page, each with the
\* file, the title and the topic entered for it.  `files` are the file parts
\* with their keys, `form` the other parts
createFormDataWithMetadata(fileItems) ==
    LET titled == {k \in DOMAIN fileItems : fileItems[k].title # ""}
        topical == {k \in DOMAIN fileItems : fileItems[k].topic # ""}
        keys == {index_key("title", k - 1) : k \in titled}
                    \cup {index_key("topic", k - 1) : k \in topical} \cup {"file_count"}
        value(key) ==
            IF key = "file_count" THEN "n"
            ELSE IF \E k \in titled : index_key("title", k - 1) = key
            THEN fileItems[CHOOSE k \in titled : index_key("title", k - 1) = key].title
            ELSE fileItems[CHOOSE k \in topical : index_key("topic", k - 1) = key].topic
    IN  [files |-> [k \in DOMAIN fileItems |->
                        [key |-> index_key("file", k - 1), file |-> fileItems[k].file]],
         form |-> [key \in keys \cup {"has", "title"} |->
                       IF key = "has" THEN keys
                       ELSE IF key = "title" THEN "" ELSE value(key)]]

\* request.files.getlist(key)
getlist(files, key) ==
    LET under == SelectSeq(files, LAMBDA part : part.key = key)
    IN  [k \in DOMAIN under |-> under[k].file]

\* the same parts with every file under the key 'file', the key line 262 reads
under_file_key(formData) ==
    [files |-> [k \in DOMAIN formData.files |->
                    [key |-> "file", file |-> formData.files[k].file]],
     form |-> formData.form]

\* lines 148, 205, 261 and 316-317 for a request with the parts of the page:
\* it has no 'youtube_url', no 'file_path' and no file under 'file'
transcribe_form_data(FileItems) ==
    \E fileItems \in FileItems :
        LET formData == createFormDataWithMetadata(fileItems)
        IN  /\ "youtube_url" \notin formData.form.has
            /\ "file_path" \notin formData.form.has
            /\ getlist(formData.files, "file") = <<>>
            /\ upload_folder' = {}
            /\ request' = [op |-> "transcribe", files |-> <<>>, form |-> formData.form]
            /\ response' = [status |-> 400, body |-> "No file or YouTube URL provided"]
            /\ opened' = <<>>
            /\ failed' = <<>>
            /\ UNCHANGED <<transcript_folder, model, issued, puts, log, threads, loads,
                           browser>>

(* view_transcript, lines 321-331; download_transcript, lines 333-352;     *)
(* delete_transcript, lines 41-65.                                         *)

view_transcript ==
    \E transcript_id \in 1..MaxIds :
        LET transcript_path == JsonName(transcript_id)
            loaded == json_load(read(transcript_folder, transcript_path))
        IN  /\ request' = [op |-> "view", id |-> transcript_id]
            /\ IF ~exists(transcript_folder, transcript_path)
               THEN /\ response' = [status |-> 404, body |-> "Transcript not found"]
                    /\ opened' = <<>>
                    /\ failed' = <<>>
               ELSE /\ response' = IF loaded.raised # None
                                   THEN [status |-> 500, body |-> loaded.raised]
                                   ELSE [status |-> 200, body |-> loaded.value]
                    /\ opened' = <<transcript_path>>
                    /\ failed' = IF loaded.raised # None THEN <<"json.load">> ELSE <<>>
            /\ UNCHANGED <<transcript_folder, upload_folder, model, issued, puts, log, threads, loads, browser>>

\* line 344: text_content = transcript_data['transcript']
text_content_lowered(data) == lower(data["transcript"])
text_content(data) == data["transcript"]

download_transcript(Places) ==
    \E transcript_id \in 1..MaxIds, at \in Places :
        LET transcript_path == JsonName(transcript_id)
            loaded == json_load(read(transcript_folder, transcript_path))
            download_path == TextName(transcript_id)
        IN  /\ request' = [op |-> "download", id |-> transcript_id]
            /\ IF ~exists(transcript_folder, transcript_path)
               THEN /\ response' = [status |-> 404, body |-> "Transcript not found"]
                    /\ opened' = <<>>
                    /\ failed' = <<>>
                    /\ UNCHANGED transcript_folder
               ELSE IF loaded.raised # None
               THEN /\ response' = [status |-> 500, body |-> loaded.raised]
                    /\ opened' = <<transcript_path>>
                    /\ failed' = <<"json.load">>
                    /\ UNCHANGED transcript_folder
               ELSE /\ transcript_folder' =
                           write(transcript_folder, download_path,
                                 text_content(loaded.value), at)
                    /\ response' = [status |-> 200,
                                    body |-> [file |-> text_content(loaded.value),
                                              download_name |->
                                                  [stem |-> loaded.value["title"],
                                                   ext |-> ".txt"]]]
                    /\ opened' = <<transcript_path, download_path>>
                    /\ failed' = <<>>
            /\ UNCHANGED <<upload_folder, model, issued, puts, log, threads, loads, browser>>

\* lines 46, 62 and 65: what delete answers when the record file is missing
\* (`found` is false), when a call of the try block raised `raised`, and when
\* every call went through
delete_response_swallowing(found, raised) ==
    IF ~found
    THEN [status |-> 404, body |-> [success |-> FALSE, error |-> "Transcript not found"]]
    ELSE [status |-> 200, body |-> [success |-> TRUE]]

delete_response_idempotent(found, raised) ==
    IF found /\ raised # None
    THEN [status |-> 500, body |-> [success |-> FALSE, error |-> raised]]
    ELSE [status |-> 200, body |-> [success |-> TRUE]]

delete_response(found, raised) ==
    IF ~found
    THEN [status |-> 404, body |-> [success |-> FALSE, error |-> "Transcript not found"]]
    ELSE IF raised # None
    THEN [status |-> 500, body |-> [success |-> FALSE, error |-> raised]]
    ELSE [status |-> 200, body |-> [success |-> TRUE]]

\* lines 41-65 for /delete/<transcript_id>.  `fails` names the call that
\* raises OSError in this request, if it is reached
delete(transcript_id, fails) ==
    LET transcript_path == JsonName(transcript_id)
        text_path == TextName(transcript_id)
        loaded == json_load(read(transcript_folder, transcript_path))
        json_removed == remove(transcript_folder, transcript_path)
    IN  /\ request' = [op |-> "delete", id |-> transcript_id]
        /\ opened' = <<>>
        /\ IF ~exists(transcript_folder, transcript_path)
           THEN \* lines 45-46
                /\ response' = delete_response(FALSE, None)
                /\ failed' = <<>>
                /\ UNCHANGED <<transcript_folder, puts>>
           ELSE IF loaded.raised # None
           THEN \* lines 50-51 raise, lines 64-65 answer
                /\ response' = delete_response(TRUE, loaded.raised)
                /\ failed' = <<"json.load">>
                /\ UNCHANGED <<transcript_folder, puts>>
           ELSE IF fails = "remove_json"
           THEN \* line 54 raises
                /\ response' = delete_response(TRUE, "OSError")
                /\ failed' = <<"os.remove(transcript_path)">>
                /\ UNCHANGED <<transcript_folder, puts>>
           ELSE IF exists(transcript_folder, text_path) /\ fails = "remove_text"
           THEN \* line 59 raises, after line 54 removed the record
                /\ response' = delete_response(TRUE, "OSError")
                /\ failed' = <<"os.remove(text_path)">>
                /\ transcript_folder' = json_removed
                /\ puts' = forgotten(puts, transcript_id)
           ELSE \* lines 54-62
                /\ response' = delete_response(TRUE, None)
                /\ failed' = <<>>
                /\ transcript_folder' = remove(json_removed, text_path)
                /\ puts' = forgotten(puts, transcript_id)
        /\ log' = IF response'.body.success
                  THEN [log EXCEPT !.deleted = @ \cup {transcript_id}]
                  ELSE log
        /\ UNCHANGED <<upload_folder, model, issued, threads, loads>>

delete_transcript(Failures) ==
    \E transcript_id \in 1..MaxIds, fails \in Failures :
        delete(transcript_id, fails) /\ UNCHANGED browser

----------------------------------------------------------------------------
(* transcribe for uploads, lines 134-145 and 261-319, line by line in a    *)
(* request thread.  No call fails by itself here: model.transcribe raises  *)
(* only when the media file is not there.                                  *)

\* what the steps of a thread leave alone
Shared == <<transcript_folder, upload_folder, model, issued, puts>>
Answer == <<request, response, opened, failed, log, loads, browser>>

\* the locals of thread t
local(t) == threads[t]
file_of(t) == local(t).files[local(t).i]
original_filename_of(t) == secure_filename(file_of(t).filename)
filepath_of(t) == upload_path(local(t).file_id, splitext(original_filename_of(t)))
title_of(t) == form_get(local(t).form, "title", original_filename_of(t))
data_of(t) ==
    transcript_data(local(t).file_id, title_of(t), form_get(local(t).form, "topic", ""),
                    original_filename_of(t), local(t).date, filepath_of(t), local(t).result)

\* what is on disk between open(transcript_path, 'w') and the first write
EmptyDocument == [members |-> <<>>, closed |-> FALSE]

\* a thread takes a request with `files` under 'file'
enter(Running, Batches, Forms) ==
    \E t \in Running, files \in Batches, form \in Forms :
        /\ local(t).pc = "idle"
        /\ threads' = [threads EXCEPT ![t] = [Idle EXCEPT !.pc = "clean", !.files = files,
                                                           !.form = form]]
        /\ UNCHANGED <<Shared, Answer>>

\* lines 137-145: every file of the upload folder is unlinked
clean(Running) ==
    \E t \in Running :
        /\ local(t).pc = "clean"
        /\ upload_folder' = {}
        /\ threads' = [threads EXCEPT ![t].pc = "file"]
        /\ UNCHANGED <<transcript_folder, model, issued, puts, Answer>>

\* lines 264-277: the next file of the loop is skipped for its empty name, or
\* gets an id and is saved
save(Running) ==
    \E t \in Running :
        /\ local(t).pc = "file"
        /\ local(t).i <= Len(local(t).files)
        /\ IF file_of(t).filename = ""
           THEN /\ threads' = [threads EXCEPT ![t].i = @ + 1]
                /\ UNCHANGED <<Shared, Answer>>
           ELSE /\ Cardinality(issued) < MaxIds
                /\ LET file_id == uuid4(issued)
                       extension == splitext(original_filename_of(t))
                   IN  /\ issued' = issued \cup {file_id}
                       /\ upload_folder' = upload_folder \cup {upload_path(file_id, extension)}
                       /\ threads' = [threads EXCEPT ![t].file_id = file_id,
                                                      ![t].pc = "get_model"]
                /\ UNCHANGED <<transcript_folder, model, puts, Answer>>

\* model.transcribe(filepath) loads the audio of the file at filepath
media_missing(uploads, filepath) == filepath \notin uploads

\* line 29 in the call of line 285: `if model is None`, and line 34 when it
\* is not
is_none(Running) ==
    \E t \in Running :
        /\ local(t).pc = "get_model"
        /\ threads' = [threads EXCEPT ![t].pc = IF model = None THEN "load_model" ELSE "run"]
        /\ UNCHANGED <<Shared, Answer>>

\* lines 31-34: whisper.load_model(model_size) is called and its handle bound
\* to the global
load_model(Running) ==
    \E t \in Running :
        /\ local(t).pc = "load_model"
        /\ model' = "base"
        /\ loads' = loads + 1
        /\ threads' = [threads EXCEPT ![t].pc = "run"]
        /\ UNCHANGED <<transcript_folder, upload_folder, issued, puts, request, response,
                       opened, failed, log, browser>>

\* lines 286-298, and lines 310-315 when model.transcribe raises
run(Running, Dates) ==
    \E t \in Running, date \in Dates :
        /\ local(t).pc = "run"
        /\ IF media_missing(upload_folder, filepath_of(t))
           THEN threads' = [threads EXCEPT
                    ![t].failed = Append(@, "model.transcribe"),
                    ![t].results =
                        Append(@, failure_outcome(original_filename_of(t), "RuntimeError")),
                    ![t].i = @ + 1,
                    ![t].pc = "file"]
           ELSE threads' = [threads EXCEPT
                    ![t].result = whisper_result(file_of(t).speech),
                    ![t].date = date,
                    ![t].pc = "open"]
        /\ UNCHANGED <<Shared, Answer>>

\* line 301: open(transcript_path, 'w') creates the file, empty
open_record(Running, Places) ==
    \E t \in Running, at \in Places :
        /\ local(t).pc = "open"
        /\ transcript_folder' =
               write(transcript_folder, JsonName(local(t).file_id), EmptyDocument, at)
        /\ threads' = [threads EXCEPT ![t].pc = "dump"]
        /\ UNCHANGED <<upload_folder, model, issued, puts, Answer>>

\* lines 302-308: json.dump(transcript_data, f), the file is closed and the
\* outcome appended
dump_record(Running) ==
    \E t \in Running :
        /\ local(t).pc = "dump"
        /\ transcript_folder' =
               write(transcript_folder, JsonName(local(t).file_id), json_dump(data_of(t)), 0)
        /\ puts' = recorded(puts, data_of(t))
        /\ threads' = [threads EXCEPT
               ![t].results = Append(@, success_outcome(local(t).file_id, title_of(t))),
               ![t].i = @ + 1,
               ![t].pc = "file"]
        /\ UNCHANGED <<upload_folder, model, issued, Answer>>

\* line 319: return jsonify(results)
respond(Running) ==
    \E t \in Running :
        /\ local(t).pc = "file"
        /\ local(t).i > Len(local(t).files)
        /\ request' = [op |-> "transcribe", files |-> local(t).files, form |-> local(t).form]
        /\ response' = [status |-> 200, body |-> local(t).results]
        /\ opened' = <<>>
        /\ failed' = local(t).failed
        /\ log' = [log EXCEPT !.put = @ \cup succeeded(local(t).results)]
        /\ threads' = [threads EXCEPT ![t] = Idle]
        /\ UNCHANGED <<Shared, loads, browser>>

----------------------------------------------------------------------------
(* download_transcript, lines 333-352, line by line in a request thread.   *)

\* a thread takes a request for /download/<transcript_id>
download_enter(Running) ==
    \E t \in Running, transcript_id \in 1..MaxIds :
        /\ local(t).pc = "idle"
        /\ threads' = [threads EXCEPT ![t] = [Idle EXCEPT !.pc = "exists",
                                                           !.file_id = transcript_id]]
        /\ UNCHANGED <<Shared, Answer>>

\* what a download thread answers as it leaves the handler
download_return(t, status, body, raised) ==
    /\ request' = [op |-> "download", id |-> local(t).file_id]
    /\ response' = [status |-> status, body |-> body]
    /\ opened' = <<>>
    /\ failed' = raised
    /\ threads' = [threads EXCEPT ![t] = Idle]

\* lines 337-338: os.path.exists(transcript_path)
download_exists(Running) ==
    \E t \in Running :
        /\ local(t).pc = "exists"
        /\ IF ~exists(transcript_folder, JsonName(local(t).file_id))
           THEN download_return(t, 404, "Transcript not found", <<>>)
           ELSE /\ threads' = [threads EXCEPT ![t].pc = "load"]
                /\ UNCHANGED <<request, response, opened, failed>>
        /\ UNCHANGED <<Shared, log, loads, browser>>

\* lines 340-344: open(transcript_path, 'r') raises when the file is gone by
\* now, json.load raises on a document cut short
download_load(Running) ==
    \E t \in Running :
        LET transcript_path == JsonName(local(t).file_id)
            loaded == json_load(read(transcript_folder, transcript_path))
        IN  /\ local(t).pc = "load"
            /\ IF ~exists(transcript_folder, transcript_path)
               THEN download_return(t, 500, "FileNotFoundError", <<"open(transcript_path)">>)
               ELSE IF loaded.raised # None
               THEN download_return(t, 500, loaded.raised, <<"json.load">>)
               ELSE /\ threads' = [threads EXCEPT ![t].pc = "write",
                                                  ![t].text = text_content(loaded.value)]
                    /\ UNCHANGED <<request, response, opened, failed>>
            /\ UNCHANGED <<Shared, log, loads, browser>>

\* lines 347-349: open(download_path, 'w') and f.write(text_content)
download_write(Running, Places) ==
    \E t \in Running, at \in Places :
        /\ local(t).pc = "write"
        /\ transcript_folder' =
               write(transcript_folder, TextName(local(t).file_id), local(t).text, at)
        /\ threads' = [threads EXCEPT ![t].pc = "send_file"]
        /\ UNCHANGED <<upload_folder, model, issued, puts, Answer>>

\* lines 351-352: send_file(download_path) raises when the file is gone by now
download_send_file(Running) ==
    \E t \in Running :
        LET download_path == TextName(local(t).file_id)
        IN  /\ local(t).pc = "send_file"
            /\ IF ~exists(transcript_folder, download_path)
               THEN download_return(t, 500, "FileNotFoundError", <<"send_file">>)
               ELSE download_return(t, 200,
                                    [file |-> read(transcript_folder, download_path)], <<>>)
            /\ UNCHANGED <<Shared, log, loads, browser>>

----------------------------------------------------------------------------
(* dashboard, lines 67-79.                                                 *)

\* line 72: file.endswith('.json')
is_any_file(name) == TRUE
is_record_file(name) == name.ext = ".json"

\* lines 73-74: open the entry and json.load it.  The text of an export is
\* not a JSON document
load(entry) ==
    IF entry.name.ext = ".json" THEN json_load(entry.content)
    ELSE [raised |-> "JSONDecodeError", value |-> None]

\* line 76: data['transcript'][:200] + "..." if len(data['transcript']) > 200
\* else data['transcript']
preview(transcript) ==
    IF Len(transcript) > PreviewLen
    THEN Slice(transcript, 0, PreviewLen) \o Ellipsis3
    ELSE transcript

\* line 76: data['preview'] = ...
with_preview(data) ==
    [key \in DOMAIN data \cup {"preview"} |->
        IF key = "preview" THEN preview(data["transcript"]) ELSE data[key]]

\* lines 71-77: the loop over os.listdir(TRANSCRIPT_FOLDER) from entry i on
RECURSIVE dashboard_loop(_, _, _, _)
dashboard_loop(folder, i, transcripts, seen) ==
    IF i > Len(folder) THEN [raised |-> None, transcripts |-> transcripts, opened |-> seen]
    ELSE IF ~is_record_file(folder[i].name)
    THEN dashboard_loop(folder, i + 1, transcripts, seen)
    ELSE LET loaded == load(folder[i])
             now == Append(seen, folder[i].name)
         IN  IF loaded.raised # None
             THEN [raised |-> loaded.raised, transcripts |-> transcripts, opened |-> now]
             ELSE IF "transcript" \notin DOMAIN loaded.value
             THEN [raised |-> "KeyError", transcripts |-> transcripts, opened |-> now]
             ELSE dashboard_loop(folder, i + 1,
                                 Append(transcripts, with_preview(loaded.value)), now)

\* the handler; render_template('dashboard.html', transcripts=transcripts) is
\* answered with the list it is given
dashboard ==
    LET listed == dashboard_loop(transcript_folder, 1, <<>>, <<>>)
    IN  /\ request' = [op |-> "dashboard"]
        /\ response' = IF listed.raised # None
                       THEN [status |-> 500, body |-> listed.raised]
                       ELSE [status |-> 200, body |-> listed.transcripts]
        /\ opened' = listed.opened
        /\ failed' = IF listed.raised = None THEN <<>>
                     ELSE IF listed.raised = "KeyError" THEN <<"data['transcript']">>
                     ELSE <<"json.load">>
        /\ UNCHANGED <<transcript_folder, upload_folder, model, issued, puts, log, threads, loads, browser>>

----------------------------------------------------------------------------
(* The dashboard page in the browser: the delete dialog,                   *)
(* src/templates/key_moments.html lines 1355-1428.  A fetch in flight is   *)
(* [id, answered, success]: the id in its URL, whether the server has      *)
(* answered it and with which data.success.  `handled` records the last    *)
(* response the page handled and the rows that handler removed.            *)

\* what the steps of the page leave alone in the server
Process ==
    <<transcript_folder, upload_folder, model, issued, puts, request, response, opened,
      failed, log, threads, loads>>

\* line 1361: let transcriptToDelete = null
null == 0

\* the rows of the table the dashboard renders, by the id of their delete
\* button (lines 1000 and 1048)
transcript_rows(folder) ==
    LET listed == dashboard_loop(folder, 1, <<>>, <<>>)
    IN  {listed.transcripts[k]["id"] : k \in DOMAIN listed.transcripts}

NothingHandled == [id |-> null, success |-> FALSE, removed |-> {}]

\* the page as the server renders it and DOMContentLoaded leaves it
loaded_page(folder) ==
    [page |-> "dashboard", rows |-> transcript_rows(folder), modal_hidden |-> TRUE,
     transcriptToDelete |-> null, fetches |-> <<>>, handled |-> NothingHandled]

\* lines 1364-1376: a click on the delete button of a row; the dialog covers
\* the page while it is shown
click_delete_btn ==
    \E id \in browser.rows :
        /\ browser.modal_hidden
        /\ browser' = [browser EXCEPT !.transcriptToDelete = id, !.modal_hidden = FALSE]
        /\ UNCHANGED Process

\* lines 1378-1381: a click on Cancel
click_cancel_delete ==
    /\ ~browser.modal_hidden
    /\ browser' = [browser EXCEPT !.modal_hidden = TRUE, !.transcriptToDelete = null]
    /\ UNCHANGED Process

\* lines 1384-1389: a click on the backdrop of the dialog
click_outside ==
    /\ ~browser.modal_hidden
    /\ browser' = [browser EXCEPT !.modal_hidden = TRUE, !.transcriptToDelete = null]
    /\ UNCHANGED Process

\* lines 1392-1399: a click on Delete in the dialog sends the request
click_confirm_delete ==
    /\ ~browser.modal_hidden
    /\ Len(browser.fetches) < MaxInFlight
    /\ browser' =
           IF browser.transcriptToDelete = null THEN browser
           ELSE [browser EXCEPT !.fetches =
                     Append(@, [id |-> browser.transcriptToDelete, answered |-> FALSE,
                                success |-> FALSE])]
    /\ UNCHANGED Process

\* the server serves one of the requests in flight
serve_delete ==
    \E k \in DOMAIN browser.fetches :
        /\ ~browser.fetches[k].answered
        /\ delete(browser.fetches[k].id, "none")
        /\ browser' = [browser EXCEPT !.fetches[k].answered = TRUE,
                                      !.fetches[k].success = response'.body.success]

\* line 1406: the rows whose delete button carries the id that
\* transcriptToDelete holds now
rows_to_remove(rows, transcriptToDelete) == rows \cap {transcriptToDelete}

\* lines 1400-1423: a response arrives and the page handles it; with no row
\* left the page is loaded again
then_delete ==
    \E k \in DOMAIN browser.fetches :
        LET fetched == browser.fetches[k]
            others == [j \in 1..(Len(browser.fetches) - 1) |->
                          browser.fetches[IF j < k THEN j ELSE j + 1]]
            removed == rows_to_remove(browser.rows, browser.transcriptToDelete)
            handled == [id |-> fetched.id, success |-> fetched.success,
                        removed |-> IF fetched.success THEN removed ELSE {}]
        IN  /\ fetched.answered
            /\ browser' =
                   IF ~fetched.success
                   THEN [browser EXCEPT !.fetches = others, !.handled = handled]
                   ELSE IF browser.rows \ removed = {}
                   THEN [loaded_page(transcript_folder) EXCEPT !.handled = handled]
                   ELSE [browser EXCEPT !.rows = @ \ removed, !.modal_hidden = TRUE,
                                        !.transcriptToDelete = null, !.fetches = others,
                                        !.handled = handled]
            /\ UNCHANGED Process

----------------------------------------------------------------------------

(* The dashboard page in the browser: the search box,                      *)
(* src/templates/key_moments.html lines 1214-1354.  The classes of the     *)
(* rows and cards that the input handler filters are left out.  A timer is *)
(* [id, term]: the id setTimeout returned, which is the number of the      *)
(* input event that set it, and the searchTerm of its closure.  `sent`     *)
(* records, for each request sent, its term, the timer that sent it and    *)
(* the box and the number of input events at that moment.                  *)

\* String.prototype.trim(), for the blank the model types
RECURSIVE trimStart(_)
trimStart(s) == IF s # <<>> /\ Head(s) = " " THEN trimStart(Tail(s)) ELSE s
RECURSIVE trimEnd(_)
trimEnd(s) ==
    IF s # <<>> /\ s[Len(s)] = " " THEN trimEnd(SubSeq(s, 1, Len(s) - 1)) ELSE s
trim(s) == trimEnd(trimStart(s))

\* line 1217: this.value.toLowerCase().trim()
searchTerm_of(value) == trim(lower(value))

\* line 1251: clearTimeout(searchTimeout)
clearTimeout_ignored(timers, id) == timers
clearTimeout(timers, id) == {timer \in timers : timer.id # id}

\* the page as the server renders it and DOMContentLoaded leaves it
search_page ==
    [page |-> "dashboard", value |-> <<>>, inputs |-> 0, searchTimeout |-> 0,
     timers |-> {}, fetches |-> <<>>, hidden |-> TRUE, shown_for |-> <<>>,
     sent |-> <<>>]

\* lines 1216-1349: an input event that leaves `value` in the box
input(Values) ==
    \E value \in Values :
        LET searchTerm == searchTerm_of(value)
            cleared == clearTimeout(browser.timers, browser.searchTimeout)
            id == browser.inputs + 1
        IN  /\ browser.inputs < MaxInputs
            /\ value # browser.value
            /\ browser' =
                   IF Len(searchTerm) < MinTermLen
                   THEN [browser EXCEPT !.value = value, !.inputs = id, !.timers = cleared,
                                        !.hidden = TRUE]
                   ELSE [browser EXCEPT !.value = value, !.inputs = id,
                                        !.timers = cleared
                                                       \cup {[id |-> id, term |-> searchTerm]},
                                        !.searchTimeout = id]
            /\ UNCHANGED Process

\* lines 1260-1268: 300 ms after it was set a timer that was not cleared runs
\* and sends the request
timeout ==
    \E timer \in browser.timers :
        /\ Len(browser.fetches) < MaxInFlight
        /\ browser' = [browser EXCEPT
               !.timers = @ \ {timer},
               !.fetches = Append(@, timer.term),
               !.sent = Append(@, [term |-> timer.term, timer |-> timer.id,
                                   value |-> browser.value, inputs |-> browser.inputs])]
        /\ UNCHANGED Process

\* lines 1270-1344: the response of a request in flight arrives, with no
\* result or with some; searchTerm is the term of the request
then_search ==
    \E k \in DOMAIN browser.fetches, empty \in BOOLEAN :
        LET searchTerm == browser.fetches[k]
            others == [j \in 1..(Len(browser.fetches) - 1) |->
                          browser.fetches[IF j < k THEN j ELSE j + 1]]
        IN  /\ browser' = [browser EXCEPT
                   !.fetches = others,
                   !.shown_for = searchTerm,
                   !.hidden = IF empty THEN ~(Len(searchTerm) >= MinTermLen) ELSE FALSE]
            /\ UNCHANGED Process

\* lines 1345-1347: the request fails
catch_search ==
    \E k \in DOMAIN browser.fetches :
        /\ browser' = [browser EXCEPT !.fetches =
               [j \in 1..(Len(browser.fetches) - 1) |->
                    browser.fetches[IF j < k THEN j ELSE j + 1]]]
        /\ UNCHANGED Process

\* lines 1352-1354: a click on the close button of the panel
click_close_search ==
    /\ ~browser.hidden
    /\ browser' = [browser EXCEPT !.hidden = TRUE]
    /\ UNCHANGED Process

----------------------------------------------------------------------------

(* The dashboard page in the browser: the selection of transcripts,        *)
(* src/unnamed/part_000 lines 65-156, over the checkboxes of               *)
(* src/templates/key_moments.html (lines 989, 1002 and 1068).  Each        *)
(* transcript has a checkbox of class transcript-select in the table and   *)
(* one on its card.  `last` records the change event handled last.         *)

\* the views in which a transcript has a checkbox
Views == {"table", "card"}

\* line 67: document.querySelectorAll('.transcript-select'), by view and id
transcriptCheckboxes(rows) == Views \X rows

\* lines 109-114 and 142-147: push unless some entry has the id
push_always(selectedTranscripts, transcriptId) == Append(selectedTranscripts, transcriptId)
push_unless_some(selectedTranscripts, transcriptId) ==
    IF \E k \in DOMAIN selectedTranscripts : selectedTranscripts[k] = transcriptId
    THEN selectedTranscripts
    ELSE Append(selectedTranscripts, transcriptId)

\* line 117: selectedTranscripts.filter(t => t.id !== transcriptId)
filter_out(selectedTranscripts, transcriptId) ==
    SelectSeq(selectedTranscripts, LAMBDA id : id # transcriptId)

\* lines 79-99: updateSelectionUI(), on the page `p`
updateSelectionUI(p) ==
    LET selected == Len(p.selectedTranscripts)
        length == Cardinality(transcriptCheckboxes(p.rows))
    IN  [p EXCEPT !.selected_count = selected,
                  !.actions_hidden = ~(selected >= MinCompared),
                  !.select_all = [checked |-> selected > 0 /\ selected = length,
                                  indeterminate |-> selected > 0 /\ selected < length]]

\* the page as the server renders it and DOMContentLoaded leaves it
selection_page(folder) ==
    [page |-> "dashboard", rows |-> transcript_rows(folder),
     checked |-> [checkbox \in transcriptCheckboxes(transcript_rows(folder)) |-> FALSE],
     select_all |-> [checked |-> FALSE, indeterminate |-> FALSE],
     selectedTranscripts |-> <<>>, selected_count |-> 0, actions_hidden |-> TRUE,
     last |-> [target |-> "none", id |-> null, checked |-> FALSE]]

\* lines 102-126: the user toggles the checkbox of a transcript in a view
change_transcript_select ==
    \E checkbox \in transcriptCheckboxes(browser.rows) :
        LET transcriptId == checkbox[2]
            this_checked == ~browser.checked[checkbox]
            selected == IF this_checked
                        THEN push_unless_some(browser.selectedTranscripts, transcriptId)
                        ELSE filter_out(browser.selectedTranscripts, transcriptId)
        IN  /\ browser' = updateSelectionUI(
                   [browser EXCEPT
                       !.selectedTranscripts = selected,
                       !.checked = [cb \in DOMAIN @ |->
                                       IF cb[2] = transcriptId THEN this_checked ELSE @[cb]],
                       !.last = [target |-> checkbox[1], id |-> transcriptId,
                                 checked |-> this_checked]])
            /\ UNCHANGED Process

\* lines 134-149: the loop of the select-all handler over the checkboxes
\* `todo`, when the box was checked
RECURSIVE push_each(_, _)
push_each(selectedTranscripts, todo) ==
    IF todo = {} THEN selectedTranscripts
    ELSE LET checkbox == CHOOSE cb \in todo :
                             \A other \in todo :
                                 \/ cb[1] = other[1] /\ cb[2] <= other[2]
                                 \/ cb[1] = "table" /\ other[1] = "card"
         IN  push_each(push_unless_some(selectedTranscripts, checkbox[2]),
                       todo \ {checkbox})

\* lines 131-156: the user toggles the select-all checkbox, which ends its
\* indeterminate state
change_select_all ==
    LET isChecked == ~browser.select_all.checked
    IN  /\ browser.rows # {}
        /\ browser' = updateSelectionUI(
               [browser EXCEPT
                   !.checked = [cb \in DOMAIN @ |-> isChecked],
                   !.selectedTranscripts =
                       IF isChecked
                       THEN push_each(@, transcriptCheckboxes(browser.rows))
                       ELSE <<>>,
                   !.last = [target |-> "select-all", id |-> null, checked |-> isChecked]])
        /\ UNCHANGED Process

----------------------------------------------------------------------------

(* The search over stores that upload ingestions have filled.              *)

Alphabet == {"A", "b"}

Strings(alphabet, n) == UNION {[1..k -> alphabet] : k \in 0..n}

Pad == [i \in 1..PadLen |-> "b"]

\* short texts, and the same texts in the middle of a long one
Texts ==
    Strings(Alphabet, MaxTextLen)
        \cup {Pad \o c \o Pad : c \in Strings(Alphabet, MaxPaddedLen)}

Queries == Strings(Alphabet, MaxQueryLen)

\* stores of up to MaxRankFiles records that match "ab" once or twice
RankTexts == {<<"a", "b">>, <<"A", "b", "a", "b">>}
RankQueries == {<<"A", "b">>}

\* the texts of the stores of up to MaxRankFiles records, in the order of the listing
RankStores == UNION {[1..n -> RankTexts] : n \in 0..MaxRankFiles}

\* the upload of one medium whose speech is `text`, with no title
Clip(text) == <<[filename |-> "my clip.mp4", speech |-> text]>>

\* the handler state before any request, and after the requests that upload
\* texts[1], ..., texts[n] one by one, each transcribed and dumped without failure
RECURSIVE uploaded(_, _)
uploaded(texts, n) ==
    IF n = 0
    THEN [folder |-> <<>>, uploads |-> {}, model |-> None, issued |-> {},
          puts |-> <<>>, results |-> <<>>, raised |-> None, failed |-> <<>>]
    ELSE LET before == uploaded(texts, n - 1)
         IN  upload_loop([before EXCEPT !.uploads = {}, !.results = <<>>, !.failed = <<>>],
                         Clip(texts[n]), Untitled,
                         <<[date |-> "2024-01-01T10:00:00", at |-> 0, fails |-> "none"]>>,
                         1, 1)

\* the state of the process once the uploads of `texts` have been served
ProcessAfterUploads(texts) ==
    LET st == uploaded(texts, Len(texts))
    IN  /\ transcript_folder = st.folder
        /\ upload_folder = st.uploads
        /\ model = st.model
        /\ issued = st.issued
        /\ puts = st.puts
        /\ request = IF texts = <<>> THEN [op |-> "none"]
                     ELSE [op |-> "transcribe", files |-> Clip(texts[Len(texts)]),
                           form |-> Untitled]
        /\ response = IF texts = <<>> THEN NoResponse
                      ELSE [status |-> 200, body |-> st.results]
        /\ opened = <<>>
        /\ failed = st.failed
        /\ log = [put |-> DOMAIN st.puts, deleted |-> {}]
        /\ threads = NoThreads
        /\ loads = IF st.model = None THEN 0 ELSE 1

\* the same, with no page open in a browser
AfterUploads(texts) == ProcessAfterUploads(texts) /\ browser = NoPage

InitSearch == \E t \in Texts : AfterUploads(<<t>>)
NextSearch == Search(Queries)
SpecSearch == InitSearch /\ [][NextSearch]_vars

InitRank == \E texts \in RankStores : AfterUploads(texts)
NextRank == Search(RankQueries)
SpecRank == InitRank /\ [][NextRank]_vars

----------------------------------------------------------------------------
(* The store over its life: uploads, views, downloads, deletions and       *)
(* searches, with the calls that the operating system may fail.            *)

UploadNames == {"", "my clip.mp4"}

\* the uploads that carry one of `Speeches`, and the upload of no file at all
Uploads(Speeches) ==
    {u \in [filename : UploadNames, speech : Speeches \cup {<<>>}] :
        u.filename = "" <=> u.speech = <<>>}

Batches(Speeches) == UNION {[1..n -> Uploads(Speeches)] : n \in 1..MaxBatch}

Forms == {Untitled, [has |-> {"title"}, title |-> "Talk"]}
Dates == {"2024-01-01T10:00:00"}
UploadFailures == {"none", "save", "transcribe", "dump"}
DeleteFailures == {"none", "remove_json", "remove_text"}
AtEnd == {0}
Anywhere == 0..MaxIds

Init ==
    /\ transcript_folder = <<>>
    /\ upload_folder = {}
    /\ model = None
    /\ issued = {}
    /\ puts = <<>>
    /\ request = [op |-> "none"]
    /\ response = NoResponse
    /\ opened = <<>>
    /\ failed = <<>>
    /\ log = [put |-> {}, deleted |-> {}]
    /\ threads = NoThreads
    /\ loads = 0
    /\ browser = NoPage

StoreSpeeches == {<<"A", "b">>}

StoreQueries == {<<"b">>, <<"A", "b">>}

Next ==
    \/ transcribe(Batches(StoreSpeeches), Forms, Dates, UploadFailures, AtEnd)
    \/ view_transcript
    \/ download_transcript(AtEnd)
    \/ delete_transcript(DeleteFailures)
    \/ Search(StoreQueries)
    \/ dashboard

Spec == Init /\ [][Next]_vars

(* The scan of a store that uploads have filled, records cut short by a    *)
(* failed dump included, in every order of the listing.                    *)

ScanSpeeches == {<<"A", "b">>, <<"b", "b", "b">>}
ScanQueries == {<<"b">>, <<"A", "b">>, <<"b", "b">>}

NextScan ==
    \/ transcribe(Batches(ScanSpeeches), {Untitled}, Dates, UploadFailures, Anywhere)
    \/ Search(ScanQueries)

SpecScan == Init /\ [][NextScan]_vars

(* The listing of a store after ingestions and deletes that all went       *)
(* through, with exports written by downloads in between.                  *)

ListSpeeches == {<<"A", "b">>}
NoFailure == {"none"}

NextList ==
    \/ transcribe(Batches(ListSpeeches), {Untitled}, Dates, NoFailure, Anywhere)
    \/ download_transcript(Anywhere)
    \/ delete_transcript(NoFailure)
    \/ dashboard

SpecList == Init /\ [][NextList]_vars

(* Ingestion by the three branches of transcribe, and deletes.             *)

Titles == {"", "Talk"}

\* request.form of an upload: without a title, with an empty one, with a title
UploadForms ==
    {form \in [has : {{}, {"title"}}, title : Titles] :
        form.has = {} => form.title = ""}

\* request.form with 'file_path'
LocalForms ==
    {[has |-> form.has \cup {"file_path"}, title |-> form.title,
      file_path |-> "/media/talk.wav"] : form \in UploadForms}

\* request.form with 'youtube_url'
YoutubeForms ==
    {[has |-> form.has \cup {"youtube_url"}, title |-> form.title,
      youtube_url |-> "https://youtu.be/x"] : form \in UploadForms}

IngestSpeeches == {<<"A", "b">>}
LocalFailures == {"none", "copy", "transcribe", "dump"}
YoutubeFailures == {"none", "download", "transcribe", "dump"}

\* what the environment may decide for a request with 'file_path'
LocalEnvs ==
    {env \in [exists : BOOLEAN, speech : IngestSpeeches, date : Dates, at : AtEnd,
              fails : LocalFailures] :
        ~env.exists => env.fails = "none"}

Videos == {[title |-> "Lecture", video_id |-> "x", channel |-> "Channel"]}

\* what the environment may decide for a request with 'youtube_url'
YoutubeEnvs ==
    [video : Videos, speech : IngestSpeeches, date : Dates, at : AtEnd,
     fails : YoutubeFailures]

OneUpload == {<<[filename |-> "my clip.mp4", speech |-> <<"A", "b">>]>>}

NextIngest ==
    \/ transcribe(OneUpload, UploadForms, Dates, UploadFailures, AtEnd)
    \/ transcribe_file_path(LocalForms, LocalEnvs)
    \/ transcribe_youtube(YoutubeForms, YoutubeEnvs)
    \/ transcribe_nothing({Untitled})
    \/ delete_transcript(DeleteFailures)

SpecIngest == Init /\ [][NextIngest]_vars

(* One upload served line by line while other threads read the store.      *)

Writer == {"r1"}
WriteQueries == {<<"A", "b">>}

NextWrite ==
    \/ enter(Writer, OneUpload, {Untitled})
    \/ clean(Writer)
    \/ save(Writer)
    \/ is_none(Writer)
    \/ load_model(Writer)
    \/ run(Writer, Dates)
    \/ open_record(Writer, AtEnd)
    \/ dump_record(Writer)
    \/ respond(Writer)
    \/ view_transcript
    \/ dashboard
    \/ Search(WriteQueries)
    \/ download_transcript(AtEnd)
    \/ delete_transcript(NoFailure)

SpecWrite == Init /\ [][NextWrite]_vars

(* Two uploads served line by line at the same time.                       *)

NextTwo ==
    \/ enter(Threads, OneUpload, {Untitled})
    \/ clean(Threads)
    \/ save(Threads)
    \/ is_none(Threads)
    \/ load_model(Threads)
    \/ run(Threads, Dates)
    \/ open_record(Threads, AtEnd)
    \/ dump_record(Threads)
    \/ respond(Threads)

SpecTwo == Init /\ [][NextTwo]_vars

----------------------------------------------------------------------------
(* Batches of files sent with the parts of the upload page.                *)

ItemTitles == {"", "Intro", "Outro"}
ItemTopics == {"", "ml"}

\* the file items of the page: two files or more, each with what the user
\* entered for it
FileItems ==
    UNION {[1..n -> [file : {[filename |-> "my clip.mp4", speech |-> <<"A", "b">>]},
                     title : ItemTitles, topic : ItemTopics]] : n \in 2..MaxBatch}

\* a request with the parts of the page and the files under 'file'
transcribe_under_file_key ==
    \E fileItems \in FileItems :
        LET formData == under_file_key(createFormDataWithMetadata(fileItems))
        IN  transcribe({getlist(formData.files, "file")}, {formData.form}, Dates,
                       NoFailure, AtEnd)

NextBatch ==
    \/ transcribe_form_data(FileItems)
    \/ transcribe_under_file_key
    \/ view_transcript
    \/ delete_transcript(NoFailure)

SpecBatch == Init /\ [][NextBatch]_vars

(* A download served line by line while records are stored and deleted.    *)

Downloader == {"r1"}

NextRace ==
    \/ transcribe(OneUpload, {Untitled}, Dates, NoFailure, AtEnd)
    \/ download_enter(Downloader)
    \/ download_exists(Downloader)
    \/ download_load(Downloader)
    \/ download_write(Downloader, AtEnd)
    \/ download_send_file(Downloader)
    \/ delete_transcript(NoFailure)

SpecRace == Init /\ [][NextRace]_vars

(* The delete dialog of the dashboard over a store with records.           *)

InitDeleteDialog ==
    /\ ProcessAfterUploads([k \in 1..MaxIds |-> <<"A", "b">>])
    /\ browser = loaded_page(transcript_folder)

NextDeleteDialog ==
    \/ click_delete_btn
    \/ click_cancel_delete
    \/ click_outside
    \/ click_confirm_delete
    \/ serve_delete
    \/ then_delete

SpecDeleteDialog == InitDeleteDialog /\ [][NextDeleteDialog]_vars

(* The search box of the dashboard.                                        *)

\* what the box may hold after an input event
BoxValues ==
    {<<>>, <<"a">>, <<"a", " ">>, <<"A", "b">>, <<" ", "a", "b">>, <<"a", "b", "c">>}

InitSearchBox ==
    /\ ProcessAfterUploads(<<>>)
    /\ browser = search_page

NextSearchBox ==
    \/ input(BoxValues)
    \/ timeout
    \/ then_search
    \/ catch_search
    \/ click_close_search

SpecSearchBox == InitSearchBox /\ [][NextSearchBox]_vars

(* The selection of transcripts on the dashboard.                          *)

InitSelection ==
    /\ ProcessAfterUploads([k \in 1..MaxRows |-> <<"A", "b">>])
    /\ browser = selection_page(transcript_folder)

NextSelection ==
    \/ change_transcript_select
    \/ change_select_all

SpecSelection == InitSelection /\ [][NextSelection]_vars

(* What the claims speak about.                                            *)

\* the last request was a /search with a query long enough, and it was answered
Searched ==
    /\ request.op = "search"
    /\ response.status = 200
    /\ Len(lower(json_get_query(request.json))) >= MinQueryLen

\* the query of the last /search request, lowercased
Query == lower(json_get_query(request.json))

\* the lowercased full text of the stored record `id`
FullText(id) == lower(json_load(read(transcript_folder, JsonName(id))).value["transcript"])

\* every offset at which q occurs in text
Occurrences(text, q) ==
    {p \in 0..(Len(text) - Len(q)) : SubSeq(text, p + 1, p + Len(q)) = q}

\* the occurrences among `occ` met from offset `from` on when the cursor jumps
\* past each occurrence of length `n` it meets
RECURSIVE LeftToRight(_, _, _)
LeftToRight(occ, n, from) ==
    LET later == {p \in occ : p >= from}
    IN  IF later = {} THEN <<>>
        ELSE LET p == CHOOSE x \in later : \A y \in later : x <= y
             IN  <<p>> \o LeftToRight(occ, n, p + n)

NonOverlapping(text, q) == LeftToRight(Occurrences(text, q), Len(q), 0)

\* the snippets of all results of the last search, as <<result, match>> indices
Snippets ==
    {<<k, m>> \in (DOMAIN response.body) \X (1..MaxSnippets) :
        m \in DOMAIN response.body[k].matches}

----------------------------------------------------------------------------
(* C1: a record written by a successful ingestion is read back equal in    *)
(* every field by a later view of its id, as long as the id has not been   *)
(* deleted in between.                                                     *)
C1_RoundTrip ==
    (request.op = "view" /\ request.id \in DOMAIN puts) =>
        /\ response.status = 200
        /\ response.body = puts[request.id]

\* a titled record viewed after its export was written
C1_Witness ==
    /\ request.op = "view"
    /\ request.id \in DOMAIN puts
    /\ response.status = 200
    /\ response.body["title"] = "Talk"
    /\ response.body["segments"] # <<>>
    /\ exists(transcript_folder, TextName(request.id))

\* the places of the listing that hold a record json.load accepts
WellFormed ==
    {i \in DOMAIN transcript_folder :
        /\ transcript_folder[i].name.ext = ".json"
        /\ json_load(transcript_folder[i].content).raised = None}

\* the ids of the records, among those at `places`, whose lowercased full text
\* contains the lowercased query
Matching(places) ==
    {transcript_folder[i].name.stem : i \in
        {j \in places :
            Occurrences(FullText(transcript_folder[j].name.stem), Query) # {}}}

Returned == {response.body[k].id : k \in DOMAIN response.body}

(* C2: for a query of length >= 2 a stored record is in the result set,    *)
(* before the cut to max_results, if and only if its lowercased full text  *)
(* contains the lowercased query.                                          *)
C2_IncludedIffContains ==
    Searched =>
        /\ Returned \subseteq Matching(WellFormed)
        /\ Len(response.body) = Min2(MaxResults, Cardinality(Matching(WellFormed)))
        /\ Len(response.body) < MaxResults => Returned = Matching(WellFormed)

\* two stored records, one returned and one not
C2_Witness ==
    /\ Searched
    /\ Cardinality(WellFormed) >= 2
    /\ Returned # {}
    /\ \E i \in WellFormed : transcript_folder[i].name.stem \notin Returned

(* C3: a search with a query shorter than 2 characters, the empty and the  *)
(* missing query included, returns the empty list whatever the store       *)
(* holds, and opens no stored record.                                      *)
C3_ShortQueryReturnsEmpty ==
    (request.op = "search" /\ Len(Query) < MinQueryLen) =>
        /\ response.status = 200
        /\ response.body = <<>>
        /\ opened = <<>>

\* a one-character query over a store with a record that contains it and a
\* record cut short
C3_Witness ==
    /\ request.op = "search"
    /\ Len(Query) = 1
    /\ response.status = 200
    /\ Matching(WellFormed) # {}
    /\ \E i \in DOMAIN transcript_folder : i \notin WellFormed

(* C9: a stored record whose full text is absent or malformed is skipped   *)
(* by the search: the search succeeds and returns the results of all       *)
(* other records.                                                          *)
C9_MalformedSkipped ==
    (request.op = "search" /\ Len(Query) >= MinQueryLen) =>
        /\ response.status = 200
        /\ Len(response.body) < MaxResults => Returned = Matching(WellFormed)

(* C10: delete(id) is atomic for the caller: after it returns, either the  *)
(* record file and the plain-text export are both gone, or it reported     *)
(* failure and removed neither of them.                                    *)
C10_DeleteAtomic ==
    [][request'.op = "delete" =>
          \/ /\ ~exists(transcript_folder', JsonName(request'.id))
             /\ ~exists(transcript_folder', TextName(request'.id))
          \/ /\ ~response'.body.success
             /\ transcript_folder' = transcript_folder]_vars

----------------------------------------------------------------------------
(* C4: for each matching record the search emits snippets for exactly the  *)
(* first min(3, k) of the k occurrences of the query found left to right   *)
(* with the cursor moved past each occurrence, and the snippet of the      *)
(* occurrence at pos is "..." + text[max(0, pos-50) : min(len, pos+len(q)  *)
(* +50)] + "...", text being the lowercased full text.                     *)
C4_SnippetsOfFirstOccurrences ==
    Searched =>
        \A k \in DOMAIN response.body :
            LET r == response.body[k]
                text == FullText(r.id)
                occ == NonOverlapping(text, Query)
            IN  /\ Len(r.matches) = Min2(MaxSnippets, Len(occ))
                /\ \A m \in DOMAIN r.matches :
                       r.matches[m].snippet =
                           Ellipsis3
                           \o SubSeq(text, Max2(0, occ[m] - SnippetContext) + 1,
                                     Min2(Len(text), occ[m] + Len(Query) + SnippetContext))
                           \o Ellipsis3

\* a record with more than 3 occurrences got 3 snippets, cut out of a longer text
C4_Witness ==
    /\ Searched
    /\ \E k \in DOMAIN response.body :
           /\ Len(NonOverlapping(FullText(response.body[k].id), Query)) > MaxSnippets
           /\ Len(response.body[k].matches) = MaxSnippets
           /\ Len(response.body[k].matches[3].snippet)
                  < Len(FullText(response.body[k].id))

(* C5, as stated: match_count is the number of offsets at which the query  *)
(* occurs in the lowercased full text, overlapping occurrences included.   *)
C5_CountsOverlapping ==
    Searched =>
        \A k \in DOMAIN response.body :
            response.body[k].match_count =
                Cardinality(Occurrences(FullText(response.body[k].id), Query))

(* C5, amended: match_count is the number of non-overlapping occurrences   *)
(* of the lowercased query in the lowercased full text, counted left to    *)
(* right with the cursor moved past each occurrence (str.count); it does   *)
(* not depend on the at most 3 snippets emitted.                           *)
C5_CountsNonOverlapping ==
    Searched =>
        \A k \in DOMAIN response.body :
            response.body[k].match_count =
                Len(NonOverlapping(FullText(response.body[k].id), Query))

\* a count above the 3 snippets and below the number of overlapping occurrences
C5_Witness ==
    /\ Searched
    /\ \E k \in DOMAIN response.body :
           /\ response.body[k].match_count > Len(response.body[k].matches)
           /\ response.body[k].match_count
                  < Cardinality(Occurrences(FullText(response.body[k].id), Query))

(* C6, as stated: the highlight_len characters of the snippet that start   *)
(* at highlight_pos are the lowercased query.                              *)
C6_HighlightInSnippet ==
    Searched =>
        \A km \in Snippets :
            LET match == response.body[km[1]].matches[km[2]]
            IN  SubSeq(match.snippet, match.highlight_pos + 1,
                       match.highlight_pos + match.highlight_len) = Query

(* C6, amended: highlight_pos is the offset of the match in the snippet    *)
(* without its ellipsis prefix: the highlight_len characters of the        *)
(* snippet that start at highlight_pos + 3 are the lowercased query (the   *)
(* dashboard adds the 3 when it renders the highlight).                    *)
C6_HighlightBehindEllipsis ==
    Searched =>
        \A km \in Snippets :
            LET match == response.body[km[1]].matches[km[2]]
            IN  SubSeq(match.snippet, match.highlight_pos + Len(Ellipsis3) + 1,
                       match.highlight_pos + Len(Ellipsis3) + match.highlight_len) = Query

\* a snippet that starts SnippetContext characters before its match
C6_Witness ==
    /\ Searched
    /\ \E km \in Snippets :
           response.body[km[1]].matches[km[2]].highlight_pos = SnippetContext

(* C7: for every snippet, highlight_len is the length of the query and     *)
(* highlight_pos + highlight_len does not exceed the length of the         *)
(* snippet string.                                                         *)
C7_HighlightWithinSnippet ==
    Searched =>
        \A km \in Snippets :
            LET match == response.body[km[1]].matches[km[2]]
            IN  /\ match.highlight_len = Len(Query)
                /\ match.highlight_pos + match.highlight_len <= Len(match.snippet)

\* a match at the very end of the text, so that only the closing ellipsis follows it
C7_Witness ==
    /\ Searched
    /\ \E km \in Snippets :
           LET match == response.body[km[1]].matches[km[2]]
           IN  /\ match.highlight_pos > 0
               /\ match.highlight_pos + match.highlight_len + Len(Ellipsis3)
                      = Len(match.snippet) - Len(Ellipsis3)

\* per place of the listing, the number of times the record there contains the
\* query, counted left to right without overlap (0 for a file that is no record)
HitCounts ==
    SubSeq([i \in DOMAIN transcript_folder |->
                IF transcript_folder[i].name.ext = ".json"
                THEN Len(NonOverlapping(FullText(transcript_folder[i].name.stem), Query))
                ELSE 0],
           1, Len(transcript_folder))

\* the place of hit i once the hits are ordered by count, larger counts first and
\* equal counts in the order of the listing
Rank(counts, i) ==
    1 + Cardinality({j \in DOMAIN counts : counts[j] > counts[i]})
      + Cardinality({j \in DOMAIN counts : j < i /\ counts[j] = counts[i]})

(* C8: the search response is the first max_results (10) entries of the    *)
(* matching records sorted by match_count in descending order, records     *)
(* with equal match_count keeping the order in which the scan met them.    *)
C8_TopTenStableDescending ==
    Searched =>
        LET counts == HitCounts
            hits == {i \in DOMAIN counts : counts[i] > 0}
        IN  /\ Len(response.body) = Min2(MaxResults, Cardinality(hits))
            /\ \A i \in hits :
                   Rank(counts, i) <= MaxResults =>
                       /\ response.body[Rank(counts, i)].id = transcript_folder[i].name.stem
                       /\ response.body[Rank(counts, i)].match_count = counts[i]

\* more than 10 matching records, cut to 10 that hold both ties and different
\* counts and that the scan did not meet in the order returned
C8_Witness ==
    /\ Searched
    /\ Len(transcript_folder) > MaxResults
    /\ Len(response.body) = MaxResults
    /\ response.body[1].id # transcript_folder[1].name.stem
    /\ \E k \in 1..(MaxResults - 1) :
           response.body[k].match_count = response.body[k + 1].match_count
    /\ \E k \in 1..(MaxResults - 1) :
           response.body[k].match_count > response.body[k + 1].match_count

----------------------------------------------------------------------------
(* Claims about delete.                                                    *)

\* C11: a delete answers success only when every removal step went through:
\* whenever json.load of the record, os.remove of the record file or os.remove
\* of the export raised, the answer is an explicit failure (500, success false)
\* that carries the error, and after a success neither file is left
C11_DeleteReportsFailure ==
    request.op = "delete" =>
        /\ failed # <<>> =>
               /\ response.status = 500
               /\ ~response.body.success
               /\ response.body.error \in {"OSError", "JSONDecodeError"}
        /\ response.body.success =>
               /\ failed = <<>>
               /\ ~exists(transcript_folder, JsonName(request.id))
               /\ ~exists(transcript_folder, TextName(request.id))

\* a delete in which the removal of the export raised after the record was removed
C11_Witness ==
    /\ request.op = "delete"
    /\ failed = <<"os.remove(text_path)">>
    /\ ~exists(transcript_folder, JsonName(request.id))

\* C12: a delete of an id that has no record file answers 404 with success
\* false and leaves the transcript folder, and so the records and their
\* number, as they were
C12_DeleteMissingIsNotFound ==
    [][(/\ request'.op = "delete"
        /\ threads' = threads
        /\ ~exists(transcript_folder, JsonName(request'.id)))
       => /\ response'.status = 404
          /\ ~response'.body.success
          /\ transcript_folder' = transcript_folder
          /\ puts' = puts]_vars

\* a delete of a missing id answered 404 over a store that holds a record and
\* an export left behind for the id
C12_Witness ==
    /\ request.op = "delete"
    /\ response.status = 404
    /\ exists(transcript_folder, TextName(request.id))
    /\ \E i \in DOMAIN transcript_folder : transcript_folder[i].name.ext = ".json"

----------------------------------------------------------------------------
(* Claims about the listing and about ingestion.                           *)

\* the ids of the records a dashboard lists, in the order of the list
Listed == [k \in DOMAIN response.body |-> response.body[k]["id"]]

\* C13: after N successful puts and M successful deletes among them, with
\* exports in the folder or not, the dashboard lists exactly N - M records,
\* one for each id that was put and not deleted
C13_ListReturnsLiveRecords ==
    request.op = "dashboard" =>
        /\ response.status = 200
        /\ Len(response.body) = Cardinality(log.put) - Cardinality(log.deleted)
        /\ {Listed[k] : k \in DOMAIN Listed} = log.put \ log.deleted
        /\ \A k \in DOMAIN Listed :
               response.body[k] = with_preview(puts[Listed[k]])

\* a listing after two puts and one delete, over a folder that holds an export
C13_Witness ==
    /\ request.op = "dashboard"
    /\ Cardinality(log.put) = 2
    /\ Cardinality(log.deleted) = 1
    /\ Len(response.body) = 1
    /\ \E i \in DOMAIN transcript_folder : transcript_folder[i].name.ext = ".txt"

\* the names of the entries of a folder
Names(folder) == {folder[i].name : i \in DOMAIN folder}

\* C14: after a batch request that reports its outcomes, the transcript folder
\* holds exactly one new record per item reported as a success, complete, and
\* none for the items reported as failures
C14_OneRecordPerSuccess ==
    [][(/\ request'.op = "transcribe"
        /\ threads' = threads
        /\ response'.status = 200)
       => /\ Names(transcript_folder') \ Names(transcript_folder)
                 = {JsonName(id) : id \in succeeded(response'.body)}
          /\ \A id \in succeeded(response'.body) :
                 json_load(read(transcript_folder', JsonName(id))).raised = None]_vars

\* C15: a batch request returns one outcome per submitted file, whatever the
\* names of the files and whichever of file.save, model.transcribe and
\* json.dump fails
C15_OneOutcomePerItem ==
    request.op = "transcribe" =>
        /\ response.status = 200
        /\ Len(response.body) = Len(request.files)

\* the ids under whose name a step wrote a record file
Written(before, after) ==
    {after[i].name.stem :
        i \in {j \in DOMAIN after :
                  /\ after[j].name.ext = ".json"
                  /\ \/ ~exists(before, after[j].name)
                     \/ read(before, after[j].name) # after[j].content}}

\* C16: no ingestion, by upload, local path or YouTube URL, writes a record
\* or reports a success under an id that an earlier ingestion drew, be the
\* record of that id still stored or deleted since
C16_IdsNeverReused ==
    [][threads' = threads =>
          /\ Written(transcript_folder, transcript_folder') \cap issued = {}
          /\ (request'.op = "transcribe" /\ response'.status = 200 /\ request' # request)
                 => succeeded(response'.body) \cap issued = {}]_vars

\* an ingestion from a local path under a second id, after the record of the
\* first id was deleted
C16_Witness ==
    /\ request.op = "transcribe"
    /\ "file_path" \in request.form.has
    /\ response.status = 200
    /\ succeeded(response.body) = {2}
    /\ log.deleted = {1}
    /\ exists(transcript_folder, JsonName(2))

\* C19: the media file of every record an upload has stored is still in the
\* upload folder, at the path the record holds, as long as the record is not
\* deleted
C19_MediaRetained ==
    \A id \in DOMAIN puts : puts[id]["filepath"] \in upload_folder

\* the caller of the last request supplied a title
Supplied == "title" \in request.form.has /\ request.form.title # ""

\* `title` is the name of the source of the record `data`: the name of the
\* file, or for a YouTube ingestion the name of the video
IsSourceName(title, data) ==
    IF "youtube_id" \in DOMAIN data
    THEN video_filename(title) = data["original_filename"]
    ELSE title = data["original_filename"]

\* C20: the title of a record an ingestion has just created is the title the
\* caller supplied, and the name of the source when the caller supplied none,
\* absent or empty, on each of the three ingestion paths
C20_TitleDefaultsToFilename ==
    (request.op = "transcribe" /\ response.status = 200) =>
        \A id \in succeeded(response.body) :
            IF Supplied
            THEN puts[id]["title"] = request.form.title
            ELSE IsSourceName(puts[id]["title"], puts[id])

----------------------------------------------------------------------------
(* Claims about requests that run at the same time.                        *)

Readers == {"view", "dashboard", "search", "download", "delete"}

\* C17: a reader that runs while a record is being written never has a
\* partially written record in its hands: json.load never fails for it
C17_NoPartialRecordRead ==
    request.op \in Readers => failed = <<>>

\* C18: a transcription request that runs at the same time as another one
\* ends as it does alone: every file is reported as a success and its
\* record is stored, complete
C18_ConcurrentUploadsIndependent ==
    request.op = "transcribe" =>
        /\ Len(response.body) = Len(request.files)
        /\ \A k \in DOMAIN response.body :
               /\ response.body[k].success
               /\ exists(transcript_folder, JsonName(response.body[k].id))
               /\ read(transcript_folder, JsonName(response.body[k].id))
                      = json_dump(puts[response.body[k].id])

----------------------------------------------------------------------------
(* Claims about the stored records, the exports and the model handle.      *)

C22_ExportIsFullText ==
    [][(request'.op = "download" /\ threads' = threads)
       => LET transcript_path == JsonName(request'.id)
              download_path == TextName(request'.id)
          IN  /\ ~exists(transcript_folder, transcript_path)
                 => /\ response'.status = 404
                    /\ transcript_folder' = transcript_folder
              /\ (/\ exists(transcript_folder, transcript_path)
                  /\ read(transcript_folder, transcript_path).closed)
                 => /\ response'.status = 200
                    /\ exists(transcript_folder', download_path)
                    /\ read(transcript_folder', download_path)
                           = json_load(read(transcript_folder, transcript_path))
                                 .value["transcript"]
                    /\ response'.body.file = read(transcript_folder', download_path)]_vars

\* a download was served and the export holds the text of the record, which
\* has capital letters in it
C22_Witness ==
    /\ request.op = "download"
    /\ response.status = 200
    /\ exists(transcript_folder, TextName(request.id))
    /\ read(transcript_folder, TextName(request.id)) = puts[request.id]["transcript"]
    /\ lower(read(transcript_folder, TextName(request.id)))
           # read(transcript_folder, TextName(request.id))

\* C23: after a request with two files or more was served, the record of
\* each file carries the title and the topic the request carries for that
\* file (the secured file name and no topic when none was entered)
C23_PerFileMetadata ==
    (/\ request.op = "transcribe"
     /\ response.status = 200
     /\ Len(request.files) >= 2)
    => \A k \in DOMAIN response.body :
           LET record ==
                   json_load(read(transcript_folder, JsonName(response.body[k].id))).value
           IN  /\ record["title"]
                      = form_get(request.form, index_key("title", k - 1),
                                 secure_filename(request.files[k].filename))
               /\ record["topic"] = form_get(request.form, index_key("topic", k - 1), "")

\* C24: when no request is in flight, no export <id>.txt is in the transcript
\* folder for an id whose delete was answered with success
C24_NoExportAfterDelete ==
    (\A t \in Threads : threads[t].pc = "idle")
    => \A transcript_id \in log.deleted :
           ~exists(transcript_folder, TextName(transcript_id))

\* C30: whisper.load_model has been called at most once since the process
\* started, so that every request is given the handle of the same load
C30_ModelLoadedOnce == loads <= 1

----------------------------------------------------------------------------
(* Claims about the dashboard page.                                        *)

\* C25: when the page has handled a response that reports success, the rows
\* it removed are the row of the transcript the request was sent for, the one
\* whose deletion the user confirmed, and no other row
C25_RemovesConfirmedRow ==
    browser.handled.success => browser.handled.removed = {browser.handled.id}

\* C26: when no request is in flight and no timer is pending, the results
\* panel is hidden if the trimmed term of the box has fewer than 2
\* characters, and otherwise shows, if it is not closed, the results of the
\* term of the box
C26_PanelReflectsBox ==
    (browser.fetches = <<>> /\ browser.timers = {})
    => IF Len(searchTerm_of(browser.value)) < MinTermLen
       THEN browser.hidden
       ELSE browser.hidden \/ browser.shown_for = searchTerm_of(browser.value)

\* C27: a request is in flight or was sent only for a term of 2 characters or
\* more that was the trimmed lowercased content of the box when it was sent,
\* by the timer of the input event that was then the last; no input event
\* has two requests; at most one timer is pending, and it is the timer of
\* the last input event with the term of the box
C27_Debounced ==
    /\ Cardinality(browser.timers) <= 1
    /\ \A timer \in browser.timers :
           /\ timer.id = browser.inputs
           /\ timer.term = searchTerm_of(browser.value)
    /\ \A k \in DOMAIN browser.sent :
           /\ Len(browser.sent[k].term) >= MinTermLen
           /\ browser.sent[k].term = searchTerm_of(browser.sent[k].value)
           /\ browser.sent[k].timer = browser.sent[k].inputs
           /\ \A j \in DOMAIN browser.sent : browser.sent[j].timer = browser.sent[k].timer => j = k

\* a burst of three input events after which one request was sent, with the
\* term of the last event, trimmed and lowercased
C27_Witness ==
    /\ browser.inputs = 3
    /\ Len(browser.sent) = 1
    /\ browser.sent[1].timer = 3
    /\ browser.sent[1].term # browser.value
    /\ browser.sent[1].term = searchTerm_of(browser.value)

\* the ids of the transcripts that selectedTranscripts holds
SelectedIds == {browser.selectedTranscripts[k] : k \in DOMAIN browser.selectedTranscripts}

\* C28: selectedTranscripts holds no id twice, it holds exactly the ids whose
\* checkboxes are checked, and the checkbox of a transcript in the table and
\* the one on its card are in the same state
C28_SelectionMatchesCheckboxes ==
    /\ \A j, k \in DOMAIN browser.selectedTranscripts :
           browser.selectedTranscripts[j] = browser.selectedTranscripts[k] => j = k
    /\ \A id \in browser.rows :
           /\ browser.checked[<<"table", id>>] = browser.checked[<<"card", id>>]
           /\ id \in SelectedIds <=> browser.checked[<<"table", id>>]
    /\ SelectedIds \subseteq browser.rows

\* the checkbox on a card was unchecked after everything had been selected:
\* two transcripts or more are left selected
C28_Witness ==
    /\ browser.last = [target |-> "card", id |-> 1, checked |-> FALSE]
    /\ Len(browser.selectedTranscripts) >= 2
    /\ Len(browser.selectedTranscripts) = Cardinality(browser.rows) - 1
    /\ ~browser.checked[<<"table", 1>>]

\* C29: the select-all checkbox is checked exactly when every transcript is
\* selected, and indeterminate exactly when some but not all are
C29_SelectAllReflectsSelection ==
    /\ browser.select_all.checked <=> SelectedIds = browser.rows
    /\ browser.select_all.indeterminate
           <=> (SelectedIds # {} /\ SelectedIds # browser.rows)

====
